---- MODULE Spec2Model ----
(***************************************************************************)
(* Model of the utilities of lightning-template:                           *)
(*   source/utils/rich_utils.py    print_config_tree, enforce_tags         *)
(*   source/utils/instantiators.py instantiate_callbacks / _loggers        *)
(* Strings are sequences of one-character strings; a config node is a      *)
(* record; a DictConfig's entries are a sequence (insertion order).        *)
(***************************************************************************)
EXTENDS Integers, Sequences, FiniteSets, TLC

\* ------------------------------------------------------------------ bounds
MaxLen == 4          \* longest line typed at the prompt (besides ExampleLine)
MaxRank == 1         \* ranks 0..MaxRank call enforce_tags

\* ------------------------------------------------------------- strings
Alphabet == {"a", "b", " ", ","}
Whitespace == {" "}

RECURSIVE StringsUpTo(_)
StringsUpTo(n) ==
  IF n = 0 THEN {<<>>}
  ELSE LET S == StringsUpTo(n - 1)
       IN  S \cup {Append(s, c) : s \in {t \in S : Len(t) = n - 1}, c \in Alphabet}

\* the spec's example input "a, b ,,c"
ExampleLine == <<"a", ",", " ", "b", " ", ",", ",", "c">>

Lines == StringsUpTo(MaxLen) \cup {ExampleLine}

\* str.strip()
RECURSIVE LStrip(_)
LStrip(s) == IF Len(s) > 0 /\ Head(s) \in Whitespace THEN LStrip(Tail(s)) ELSE s

RECURSIVE RStrip(_)
RStrip(s) ==
  IF Len(s) > 0 /\ s[Len(s)] \in Whitespace THEN RStrip(SubSeq(s, 1, Len(s) - 1)) ELSE s

Strip(s) == RStrip(LStrip(s))

\* str.split(","): the pieces between commas, empty pieces kept
RECURSIVE SplitAcc(_, _, _)
SplitAcc(s, cur, acc) ==
  IF Len(s) = 0 THEN Append(acc, cur)
  ELSE IF Head(s) = "," THEN SplitAcc(Tail(s), <<>>, Append(acc, cur))
       ELSE SplitAcc(Tail(s), Append(cur, Head(s)), acc)

Split(s) == SplitAcc(s, <<>>, <<>>)

RECURSIVE SelectSeqOf(_, _)
\* the subsequence of the indices i of s for which keep[i]
SelectSeqOf(s, keep) ==
  IF Len(s) = 0 THEN <<>>
  ELSE LET rest == SelectSeqOf(Tail(s), [i \in 1..(Len(s) - 1) |-> keep[i + 1]])
       IN  IF keep[1] THEN <<Head(s)>> \o rest ELSE rest

\* --------------------------------------------------------- enforce_tags
DefaultTags == <<"d", "e", "v">>

\* rich's Prompt.ask(..., default=d): an empty line gives the default,
\* any other line is returned stripped
PromptAsk(line, default) == IF line = <<>> THEN default ELSE Strip(line)

\* [t.strip() for t in tags.split(",") if t != ""]
ParseTags(answer) ==
  LET pieces == Split(answer)
      kept == SelectSeqOf(pieces, [i \in 1..Len(pieces) |-> pieces[i] # <<>>])
  IN  [i \in 1..Len(kept) |-> Strip(kept[i])]

\* faulty variant: the condition tests `is None` instead of the truth value
NoTagsNoneOnly(c) == ~c.hasCoreTags

\* faulty variant: the condition reads a key the config never has
NoTagsTypo(c) == TRUE

\* not config.get("core").get("tags")
NoTags(c) == ~c.hasCoreTags \/ Len(c.coreTags) = 0

\* "id" in HydraConfig().cfg.hydra.job
IsMultirun(job) == job

\* faulty variant: the decorator is missing
RankZeroOnlyOff(r) == TRUE

\* @rank_zero_only: the body runs on rank 0 only
RankZeroOnly(r) == r = 0

Ranks == 0..MaxRank

VARIABLES
  cfg,       \* cfg[r]: the configuration of rank r
  jobId,     \* whether hydra.job carries an id (multirun)
  call,      \* call[r]: the state of rank r's enforce_tags call and its flag
  asked,     \* asked[r]: the lines read at rank r's prompt
  warned,    \* warned[r]: number of log.warning calls
  infoLog,   \* infoLog[r]: the tag lists passed to log.info
  tagsLog    \* tags.log in hydra_output_dir

tagVars == <<cfg, jobId, call, asked, warned, infoLog, tagsLog>>

SomeTag == <<"x">>
OtherTag == <<"r">>

InitConfigs ==
  [hasCoreTags : BOOLEAN, coreTags : {<<>>, <<SomeTag>>},
   hasRootTags : BOOLEAN, rootTags : {<<>>, <<OtherTag>>},
   hasOutDir : BOOLEAN]

WellFormed(c) ==
  /\ (~c.hasCoreTags => c.coreTags = <<>>)
  /\ (c.hasRootTags <=> c.rootTags # <<>>)

\* every rank starts from the same composed config c; job tells a multirun
TagsStart(c, job) ==
  /\ cfg = [r \in Ranks |-> c]
  /\ jobId = job
  /\ call = [r \in Ranks |-> [pc |-> "pending", save |-> FALSE]]
  /\ asked = [r \in Ranks |-> <<>>]
  /\ warned = [r \in Ranks |-> 0]
  /\ infoLog = [r \in Ranks |-> <<>>]
  /\ tagsLog = [written |-> FALSE, content |-> <<>>]

InitTags == \E c \in {x \in InitConfigs : WellFormed(x)}, job \in BOOLEAN : TagsStart(c, job)

\* a config with tags set, launched as a single run
PlainConfig ==
  [hasCoreTags |-> TRUE, coreTags |-> <<SomeTag>>, hasRootTags |-> FALSE,
   rootTags |-> <<>>, hasOutDir |-> TRUE]

\* lines 97-99: the optional save, then the return
SaveAndReturn(r, c, save) ==
  IF ~save
    THEN /\ call' = [call EXCEPT ![r] = [pc |-> "returned", save |-> save]]
         /\ UNCHANGED tagsLog
  ELSE IF ~c.hasOutDir
    THEN /\ call' = [call EXCEPT ![r] = [pc |-> "AttributeError", save |-> save]]
         /\ UNCHANGED tagsLog
  ELSE /\ call' = [call EXCEPT ![r] = [pc |-> "returned", save |-> save]]
       /\ tagsLog' = [written |-> TRUE, content |-> c.coreTags]

\* lines 77-99; the line is read from the console where Prompt.ask is reached
EnforceTags(r, save) ==
  /\ call[r].pc = "pending"
  /\ UNCHANGED jobId
  /\ IF ~RankZeroOnly(r)
       THEN /\ call' = [call EXCEPT ![r] = [pc |-> "returned", save |-> save]]
            /\ UNCHANGED <<cfg, asked, warned, infoLog, tagsLog>>
     ELSE IF ~NoTags(cfg[r])
       THEN /\ SaveAndReturn(r, cfg[r], save)
            /\ UNCHANGED <<cfg, asked, warned, infoLog>>
     ELSE IF IsMultirun(jobId)
       THEN /\ call' = [call EXCEPT ![r] = [pc |-> "ValueError", save |-> save]]
            /\ UNCHANGED <<cfg, asked, warned, infoLog, tagsLog>>
     ELSE \E line \in Lines :
          LET tags == ParseTags(PromptAsk(line, DefaultTags))
              c2 == [cfg[r] EXCEPT !.hasCoreTags = TRUE, !.coreTags = tags]
          IN  /\ warned' = [warned EXCEPT ![r] = @ + 1]
              /\ asked' = [asked EXCEPT ![r] = Append(@, line)]
              /\ cfg' = [cfg EXCEPT ![r] = c2]
              /\ IF ~c2.hasRootTags
                   \* line 95 reads config.tags (not config.core.tags): a missing
                   \* key of a composed (struct) config raises on attribute access
                   THEN /\ call' = [call EXCEPT ![r] =
                                      [pc |-> "AttributeError", save |-> save]]
                        /\ UNCHANGED <<infoLog, tagsLog>>
                   ELSE /\ infoLog' = [infoLog EXCEPT ![r] = Append(@, c2.rootTags)]
                        /\ SaveAndReturn(r, c2, save)

EnforceTagsCall == \E r \in Ranks, save \in BOOLEAN : EnforceTags(r, save)

\* ------------------------------------------------- instantiators.py
MaxEntries == 3      \* most entries of a config passed to an instantiator

\* the shapes of one entry's value: a scalar, a ListConfig, a DictConfig
\* without "_target_", a DictConfig with "_target_" (two target types)
EntryShapes ==
  {[kind |-> "scalar", target |-> ""], [kind |-> "list", target |-> ""],
   [kind |-> "dict", target |-> ""],
   [kind |-> "dict", target |-> "T1"], [kind |-> "dict", target |-> "T2"]}

RECURSIVE EntrySeqs(_)
\* the entry sequences of at most n entries; entry i has the i-th key
EntrySeqs(n) ==
  IF n = 0 THEN {<<>>}
  ELSE LET S == EntrySeqs(n - 1)
       IN  S \cup {Append(s, e) : s \in {t \in S : Len(t) = n - 1}, e \in EntryShapes}

\* the values a caller can pass: None, an int, a str, a ListConfig, a DictConfig
ConfigArgs ==
  {[kind |-> "none", size |-> 0, entries |-> <<>>]}
    \cup [kind : {"int", "str"}, size : {0, 1}, entries : {<<>>}]
    \cup {[kind |-> k, size |-> Len(es), entries |-> es] :
            k \in {"list", "dict"}, es \in EntrySeqs(MaxEntries)}

\* faulty variant: the guard tests `is None` instead of the truth value
TruthyNotNone(a) == a.kind # "none"

\* Python truth value of the argument (`not callbacks_config`)
Truthy(a) == a.kind # "none" /\ a.size # 0

\* faulty variant: the type test accepts any container node
IsDictConfigLoose(a) == a.kind \in {"dict", "list"}

\* isinstance(callbacks_config, DictConfig)
IsDictConfig(a) == a.kind = "dict"

\* faulty variant: the "_target_" test is missing
IsInstantiableNoKey(e) == e.kind = "dict"

\* isinstance(callback, DictConfig) and "_target_" in callback
IsInstantiable(e) == e.kind = "dict" /\ e.target # ""

\* hydra.utils.instantiate(entry): an object of the entry's target type,
\* built from the entry with key i
Instantiate(i, e) == [cls |-> e.target, key |-> i]

RECURSIVE Loop(_, _, _)
\* the for loop over .items() from entry i on; acc is the list built so far
Loop(es, i, acc) ==
  IF i > Len(es) THEN acc
  ELSE Loop(es, i + 1,
            IF IsInstantiable(es[i]) THEN Append(acc, Instantiate(i, es[i])) ELSE acc)

VARIABLES
  instCall,     \* the instantiator call made: function, argument, outcome
  instOut,      \* the list it returned
  instWarned,   \* number of logger.warning calls
  instInfo,     \* the target types named by logger.info, in order
  constructed   \* the objects hydra.utils.instantiate built, in order

instVars == <<instCall, instOut, instWarned, instInfo, constructed>>

NoArg == [kind |-> "none", size |-> 0, entries |-> <<>>]

InitInst ==
  /\ instCall = [fn |-> "none", arg |-> NoArg, pc |-> "pending"]
  /\ instOut = <<>>
  /\ instWarned = 0
  /\ instInfo = <<>>
  /\ constructed = <<>>

\* the body shared by lines 19-33 and 42-56
InstantiateBody(fn, a) ==
  IF ~Truthy(a)
    THEN /\ instCall' = [fn |-> fn, arg |-> a, pc |-> "returned"]
         /\ instWarned' = instWarned + 1
         /\ UNCHANGED <<instOut, instInfo, constructed>>
  ELSE IF ~IsDictConfig(a)
    THEN /\ instCall' = [fn |-> fn, arg |-> a, pc |-> "TypeError"]
         /\ UNCHANGED <<instOut, instWarned, instInfo, constructed>>
  ELSE LET objs == Loop(a.entries, 1, <<>>)
       IN  /\ instCall' = [fn |-> fn, arg |-> a, pc |-> "returned"]
           /\ instOut' = objs
           /\ constructed' = constructed \o objs
           /\ instInfo' = instInfo \o [i \in 1..Len(objs) |-> objs[i].cls]
           /\ UNCHANGED instWarned

\* lines 13-33
InstantiateCallbacks ==
  /\ instCall.pc = "pending"
  /\ \E a \in ConfigArgs : InstantiateBody("callbacks", a)

\* lines 36-56
InstantiateLoggers ==
  /\ instCall.pc = "pending"
  /\ \E a \in ConfigArgs : InstantiateBody("loggers", a)

\* ---------------------------------------------------- print_config_tree
MaxPref == 2         \* longest print_order

FieldNames == {"callbacks", "model", "extra", "paths"}
PrefNames == FieldNames \cup {"absent"}

RECURSIVE PrefLists(_)
PrefLists(n) ==
  IF n = 0 THEN {<<>>}
  ELSE LET S == PrefLists(n - 1)
       IN  S \cup {Append(s, f) : s \in {t \in S : Len(t) = n - 1}, f \in PrefNames}

Names(root) == {root[i].name : i \in 1..Len(root)}

RECURSIVE Roots(_)
\* the field sequences of at most n fields, each value a DictConfig or not
Roots(n) ==
  IF n = 0 THEN {<<>>}
  ELSE LET S == Roots(n - 1)
       IN  S \cup {Append(s, [name |-> f, isDict |-> d]) :
                     s \in {t \in S : Len(t) = n - 1}, f \in FieldNames, d \in BOOLEAN}

\* the root configs: distinct field names, in insertion order
RootConfigs ==
  {root \in Roots(Cardinality(FieldNames)) : Cardinality(Names(root)) = Len(root)}

PrintOrders == PrefLists(MaxPref)

Elems(q) == {q[i] : i \in 1..Len(q)}

RECURSIVE AddPreferred(_, _, _)
\* lines 46-49: append each print_order field that is in config
AddPreferred(order, root, queue) ==
  IF Len(order) = 0 THEN queue
  ELSE AddPreferred(Tail(order), root,
                    IF Head(order) \in Names(root) THEN Append(queue, Head(order))
                    ELSE queue)

\* faulty variant: the `not in queue` test is missing
AddOthersAll(root, queue) == queue \o [i \in 1..Len(root) |-> root[i].name]

RECURSIVE AddOthers(_, _)
\* lines 52-54: append each config field not yet in the queue
AddOthers(root, queue) ==
  IF Len(root) = 0 THEN queue
  ELSE AddOthers(Tail(root),
                 IF Head(root).name \notin Elems(queue)
                   THEN Append(queue, Head(root).name) ELSE queue)

\* lines 43-54
BuildQueue(order, root) == AddOthers(root, AddPreferred(order, root, <<>>))

\* number of print_order fields not found in config (one warning each)
Missing(order, root) == Cardinality({i \in 1..Len(order) : order[i] \notin Names(root)})

Field(root, f) == CHOOSE e \in {root[i] : i \in 1..Len(root)} : e.name = f

\* lines 60-64: the text of one branch
BranchContent(e, resolve) ==
  IF e.isDict THEN (IF resolve THEN "yaml-resolved" ELSE "yaml") ELSE "str"

\* lines 57-66
BuildTree(queue, root, resolve) ==
  [i \in 1..Len(queue) |->
     [label |-> queue[i], content |-> BranchContent(Field(root, queue[i]), resolve)]]

\* config.paths.hydra_output_dir can be read
HasOutputDir(root) == \E i \in 1..Len(root) : root[i].name = "paths" /\ root[i].isDict

VARIABLES
  treeCall,    \* the print_config_tree call made: rank, arguments, outcome
  console,     \* the tree printed to the console
  treeLog,     \* config_tree.log
  treeWarned   \* number of log.warning calls

treeVars == <<treeCall, console, treeLog, treeWarned>>

InitTree ==
  /\ treeCall = [rank |-> 0, root |-> <<>>, order |-> <<>>, save |-> FALSE,
                 pc |-> "pending"]
  /\ console = <<>>
  /\ treeLog = [written |-> FALSE, content |-> <<>>]
  /\ treeWarned = 0

\* lines 17-74
PrintConfigTree(r, root, order, resolve, save) ==
  /\ IF ~RankZeroOnly(r)
       THEN /\ treeCall' = [treeCall EXCEPT !.rank = r, !.pc = "returned"]
            /\ UNCHANGED <<console, treeLog, treeWarned>>
     ELSE LET tree == BuildTree(BuildQueue(order, root), root, resolve)
          IN  /\ treeWarned' = treeWarned + Missing(order, root)
              /\ console' = tree
              /\ IF save /\ ~HasOutputDir(root)
                   THEN /\ treeCall' = [rank |-> r, root |-> root, order |-> order,
                                        save |-> save, pc |-> "AttributeError"]
                        /\ UNCHANGED treeLog
                   ELSE /\ treeCall' = [rank |-> r, root |-> root, order |-> order,
                                        save |-> save, pc |-> "returned"]
                        /\ treeLog' = IF save THEN [written |-> TRUE, content |-> tree]
                                      ELSE treeLog

PrintConfigTreeCall ==
  /\ treeCall.pc = "pending"
  /\ \E r \in Ranks, root \in RootConfigs, order \in PrintOrders,
        resolve \in BOOLEAN, save \in BOOLEAN : PrintConfigTree(r, root, order, resolve, save)

\* ------------------------------------------------------ specifications
vars == <<tagVars, instVars, treeVars>>

\* the state in which enforce_tags is called, for every composed config
Init == InitTags /\ InitInst /\ InitTree

\* the state in which the other utilities are called
Idle == TagsStart(PlainConfig, FALSE) /\ InitInst /\ InitTree

NextTags == EnforceTagsCall /\ UNCHANGED <<instVars, treeVars>>

NextInst ==
  \/ InstantiateCallbacks /\ UNCHANGED <<tagVars, treeVars>>
  \/ InstantiateLoggers /\ UNCHANGED <<tagVars, treeVars>>

NextTree == PrintConfigTreeCall /\ UNCHANGED <<tagVars, instVars>>

\* the tag enforcement of every rank
SpecTags == Init /\ [][NextTags]_vars

\* one instantiator call
SpecInst == Idle /\ [][NextInst]_vars

\* one print_config_tree call
SpecTree == Idle /\ [][NextTree]_vars

\* ================================================================ claims
\* what the claims call "empty or absent" tags
Untagged(c) == ~c.hasCoreTags \/ c.coreTags = <<>>

\* rank r's enforce_tags call is made in this step
Called(r) == call[r].pc = "pending" /\ call'[r].pc # "pending"

\* the tag list the spec derives from a line: split on commas, trim each
\* piece, drop the pieces that are empty after trimming
ClaimedTags(line) ==
  LET pieces == Split(IF line = <<>> THEN DefaultTags ELSE line)
      trimmed == [i \in 1..Len(pieces) |-> Strip(pieces[i])]
  IN  SelectSeq(trimmed, LAMBDA t : t # <<>>)

Trimmed(t) == t # <<>> /\ Head(t) \notin Whitespace /\ t[Len(t)] \notin Whitespace

\* C1: after the prompt, core.tags is the entered line split on commas, each
\* piece trimmed, empty pieces dropped: every stored tag is trimmed, non-empty.
C1_SplitTrimDrop ==
  \A r \in Ranks :
    asked[r] # <<>> =>
      /\ cfg[r].coreTags = ClaimedTags(asked[r][1])
      /\ \A i \in 1..Len(cfg[r].coreTags) : Trimmed(cfg[r].coreTags[i])

\* C2: whenever enforce_tags has returned normally on rank 0, core.tags is a
\* non-empty sequence.
C2_ReturnedIsTagged ==
  call[0].pc = "returned" => cfg[0].hasCoreTags /\ Len(cfg[0].coreTags) > 0

\* C3: with paths.hydra_output_dir present, enforce_tags raises only in the
\* unattended-without-tags case, and the interactive path logs the tag list
\* it has just written to core.tags.
C3_RaisesOnlyUnattended ==
  cfg[0].hasOutDir =>
    /\ call[0].pc \in {"ValueError", "AttributeError"} =>
         call[0].pc = "ValueError" /\ Untagged(cfg[0]) /\ jobId /\ asked[0] = <<>>
    /\ asked[0] # <<>> =>
         call[0].pc = "returned" /\ infoLog[0] = <<cfg[0].coreTags>>

\* C4: with core.tags empty or absent and the job id present, the call on
\* rank 0 raises the configuration error without prompting, before any
\* change of core.tags and any write of tags.log, whatever save_to_file is.
C4_MultirunRaisesFirst ==
  [][(Called(0) /\ Untagged(cfg[0]) /\ jobId)
       => /\ call'[0].pc = "ValueError"
          /\ UNCHANGED <<cfg, asked, warned, infoLog, tagsLog>>]_vars

C4_Witness ==
  /\ call[0].pc = "ValueError" /\ call[0].save
  /\ Untagged(cfg[0]) /\ cfg[0].hasCoreTags
  /\ ~tagsLog.written /\ asked[0] = <<>>

\* C5: with core.tags non-empty the call on rank 0 never prompts, never
\* raises the multirun error and leaves the configuration unchanged; it
\* writes tags.log only when save_to_file is set, and then core.tags.
C5_TaggedIsFrame ==
  [][(Called(0) /\ ~Untagged(cfg[0]))
       => /\ UNCHANGED <<cfg, asked, warned, infoLog>>
          /\ call'[0].pc # "ValueError"
          /\ tagsLog' # tagsLog =>
               call'[0].save /\ tagsLog' = [written |-> TRUE, content |-> cfg[0].coreTags]
          /\ ~call'[0].save => call'[0].pc = "returned"]_vars

C5_Witness ==
  /\ call[0].pc = "returned" /\ call[0].save /\ jobId
  /\ cfg[0].coreTags = <<SomeTag>> /\ asked[0] = <<>>
  /\ tagsLog = [written |-> TRUE, content |-> <<SomeTag>>]

\* C10: on a rank other than 0 the call is a no-op: no prompt, no error even
\* with tags unset in a multirun, no tags.log, core.tags unchanged.
C10_OtherRanksNoOp ==
  [][\A r \in Ranks \ {0} :
       Called(r) => /\ call'[r].pc = "returned"
                    /\ UNCHANGED <<cfg, asked, warned, infoLog, tagsLog>>]_vars

\* rank 0 is Tagged after its call while another rank is still Untagged
C10_Witness ==
  \E r \in Ranks \ {0} :
    /\ call[0].pc = "returned" /\ Len(cfg[0].coreTags) > 0 /\ asked[0] # <<>>
    /\ call[r].pc = "returned" /\ call[r].save
    /\ Untagged(cfg[r]) /\ ~tagsLog.written

\* the entries of es the claims call instantiable
Targeted(es) == {i \in 1..Len(es) : es[i].kind = "dict" /\ es[i].target # ""}

\* C6: for a non-empty mapping the instantiator returns one object per entry
\* that is a mapping with "_target_", in insertion order, and raises nothing;
\* when every entry has the key, output and input have the same length.
C6_OnePerTargetInOrder ==
  (instCall.pc # "pending" /\ instCall.arg.kind = "dict" /\ instCall.arg.size > 0) =>
    LET es == instCall.arg.entries
    IN  /\ instCall.pc = "returned"
        /\ constructed = instOut
        /\ Len(instOut) = Cardinality(Targeted(es))
        /\ \A j \in 1..Len(instOut) :
             /\ instOut[j].key \in Targeted(es)
             /\ instOut[j].cls = es[instOut[j].key].target
             /\ \A k \in 1..Len(instOut) : j < k => instOut[j].key < instOut[k].key
        /\ instInfo = [j \in 1..Len(instOut) |-> instOut[j].cls]
        /\ Targeted(es) = 1..Len(es) =>
             Len(instOut) = Len(es) /\ \A j \in 1..Len(es) : instOut[j].key = j

C6_Witness ==
  /\ instCall.pc = "returned" /\ instCall.fn = "callbacks"
  /\ Len(instCall.arg.entries) = 3 /\ Targeted(instCall.arg.entries) = {1, 3}
  /\ Len(instOut) = 2 /\ instOut[1].cls = "T2" /\ instOut[2].cls = "T1"

\* C7 as stated: every non-mapping value except null raises a type error
\* and nothing is constructed.
C7_AnyNonMappingRaises ==
  (instCall.pc # "pending" /\ instCall.arg.kind \notin {"none", "dict"}) =>
    instCall.pc = "TypeError" /\ constructed = <<>>

\* C7 (amended): a non-mapping value that is truthy (a non-zero number, a
\* non-empty string or sequence) raises a type error and nothing is
\* constructed; a falsy one (0, "", an empty sequence) is handled as an empty
\* config: a warning, an empty list, no error.
C7_TruthyNonMappingRaises ==
  (instCall.pc # "pending" /\ instCall.arg.kind \notin {"none", "dict"}) =>
    /\ constructed = <<>> /\ instOut = <<>> /\ instInfo = <<>>
    /\ instCall.arg.size # 0 => instCall.pc = "TypeError" /\ instWarned = 0
    /\ instCall.arg.size = 0 => instCall.pc = "returned" /\ instWarned = 1

C7_Witness ==
  /\ instCall.pc = "TypeError" /\ instCall.fn = "loggers"
  /\ instCall.arg.kind = "list" /\ Targeted(instCall.arg.entries) # {}
  /\ constructed = <<>>

\* C8: an empty mapping or a null config returns an empty list, raises
\* nothing, logs one warning and constructs nothing.
C8_EmptyOrAbsent ==
  (instCall.pc # "pending"
     /\ (instCall.arg.kind = "none" \/ (instCall.arg.kind = "dict" /\ instCall.arg.size = 0))) =>
    /\ instCall.pc = "returned"
    /\ instOut = <<>> /\ constructed = <<>> /\ instInfo = <<>>
    /\ instWarned = 1

C8_Witness ==
  /\ instCall.pc = "returned" /\ instCall.fn = "loggers"
  /\ instCall.arg.kind = "dict" /\ instCall.arg.size = 0
  /\ instWarned = 1

\* the labels of the branches printed, in order
Labels == [i \in 1..Len(console) |-> console[i].label]

RootNames == [i \in 1..Len(treeCall.root) |-> treeCall.root[i].name]

Count(q, f) == Cardinality({i \in 1..Len(q) : q[i] = f})

Printed == treeCall.pc # "pending" /\ treeCall.rank = 0

\* the display queue the spec describes
ClaimedQueue ==
  SelectSeq(treeCall.order, LAMBDA f : f \in Elems(RootNames))
    \o SelectSeq(RootNames, LAMBDA f : f \notin Elems(treeCall.order))

\* C9 as stated: the queue is the preference names found in the root, in the
\* list's order, then the other fields in the root's order; every top-level
\* field is rendered exactly once and no absent name is rendered.
C9_EachFieldOnce ==
  Printed =>
    /\ Labels = ClaimedQueue
    /\ \A f \in Elems(RootNames) : Count(Labels, f) = 1
    /\ Elems(Labels) \subseteq Elems(RootNames)

\* C9 (amended): the queue is the preference names found in the root, in the
\* list's order with repetitions kept, then the other fields in the root's
\* order; every top-level field is rendered at least once, once per
\* occurrence in the preference list when it occurs there, and no absent
\* name is rendered.
C9_QueueOrder ==
  Printed =>
    /\ Labels = ClaimedQueue
    /\ \A f \in Elems(RootNames) :
         Count(Labels, f) = IF Count(treeCall.order, f) = 0 THEN 1
                            ELSE Count(treeCall.order, f)
    /\ Elems(Labels) \subseteq Elems(RootNames)

C9_Witness ==
  /\ Printed
  /\ treeCall.order = <<"model", "callbacks">>
  /\ RootNames = <<"callbacks", "model", "extra">>
  /\ Labels = <<"model", "callbacks", "extra">>

====
